---- MODULE Spec2Model ----
(***************************************************************************)
(* Harbour Lane shipping module: carrier-rates endpoint, zone cache,       *)
(* inquiry pipeline and the middleware in front of them.                   *)
(*                                                                         *)
(* Strings are sequences of one-character strings, so that the regular     *)
(* expressions of the code (\D, \*, the SQL pattern) are computed and not  *)
(* assumed.  JavaScript null is Null for strings and 0 for ids and         *)
(* timestamps (Date.now() and AUTO_INCREMENT ids are never 0).             *)
(***************************************************************************)
EXTENDS Integers, Sequences, FiniteSets, TLC

VARIABLES
    now,            \* Date.now() / NOW(), in milliseconds
    ticks,          \* number of clock jumps taken
    warehouses,     \* table warehouses: id -> [name, status]
    zones,          \* table zones, in row order
    inquiries,      \* table inquiries, in insertion order (id = position)
    draftOrders,    \* draft orders that exist at the gateway
    zonesCache,     \* zoneService.js zonesCache: [isNull, rows]
    cacheTimestamp, \* zoneService.js cacheTimestamp (0 = null)
    reqPc,          \* per request: position of handleCarrierRates
    payload,        \* per request: req.body
    quiet,          \* per request (history): no request or pipeline was pending when it arrived
    responses,      \* per request: the HTTP responses sent, in order
    threw,          \* per request: an exception reached the catch of the handler
    load,           \* per request: the loadZonesCache call it started
    pipe,           \* per request: the setImmediate callback (inquiry pipeline)
    callArg,        \* pure-function harness: the argument of the call
    callCache,      \* pure-function harness: the snapshot given to the scan
    callRet,        \* pure-function harness: the value returned
    called,         \* pure-function harness: TRUE once the function ran
    rateLimitStore, \* security.js rateLimitStore: the record of the one client key
    limited,        \* (history) last limiter outcome, and admissions since the record was set
    zoneReq         \* per addZone request: its position, arguments and response

pureVars == <<callArg, callCache, callRet, called>>

envVars == <<now, ticks>>

storeVars == <<warehouses, zones, inquiries, draftOrders>>

cacheVars == <<zonesCache, cacheTimestamp>>

reqVars == <<reqPc, payload, quiet, responses, threw, load, pipe>>

sysVars == <<envVars, storeVars, cacheVars, reqVars>>

limitVars == <<rateLimitStore, limited>>

vars == <<sysVars, pureVars, limitVars, zoneReq>>

-----------------------------------------------------------------------------
(* Bounds                                                                  *)

MaxPostcodeLen == 5
MaxZones == 3
MaxReq == 2
MaxTicks == 1

ReqIds == 1..MaxReq

\* loadZonesCache calls: one per request, 0 for the one of initializeDatabase,
\* and one for the refreshCache of an administrative route
AdminLoader == MaxReq + 1

Loaders == 0..AdminLoader

-----------------------------------------------------------------------------
(* Strings                                                                 *)

Null == <<"null">>

Digits == {"0", "1", "2", "3", "4", "5", "6", "7", "8", "9"}

IsDigit(c) == c \in Digits

IsSpace(c) == c = " "

Lower == <<"a","b","c","d","e","f","g","h","i","j","k","l","m",
           "n","o","p","q","r","s","t","u","v","w","x","y","z">>

Upper == <<"A","B","C","D","E","F","G","H","I","J","K","L","M",
           "N","O","P","Q","R","S","T","U","V","W","X","Y","Z">>

UpperOf(c) ==
    IF \E i \in 1..26 : Lower[i] = c
    THEN Upper[CHOOSE i \in 1..26 : Lower[i] = c]
    ELSE c

toUpperCase(s) == [i \in 1..Len(s) |-> UpperOf(s[i])]

RECURSIVE trimStart(_)
trimStart(s) ==
    IF s # <<>> /\ IsSpace(Head(s)) THEN trimStart(Tail(s)) ELSE s

RECURSIVE trimEnd(_)
trimEnd(s) ==
    IF s # <<>> /\ IsSpace(s[Len(s)]) THEN trimEnd(SubSeq(s, 1, Len(s) - 1)) ELSE s

trim(s) == trimEnd(trimStart(s))

\* s.replace(/\D/g, '')
removeNonDigits(s) == SelectSeq(s, IsDigit)

NotStar(c) == c # "*"

\* s.replace(/\*/g, '')
removeStars(s) == SelectSeq(s, NotStar)

startsWith(s, p) == Len(p) <= Len(s) /\ SubSeq(s, 1, Len(p)) = p

\* !postcode for a string-or-null value
Falsy(s) == s = Null \/ s = <<>>

-----------------------------------------------------------------------------
(* utils/postcode.js                                                       *)

normalizePostcode_first4(postcode) ==
    IF Falsy(postcode) THEN Null
    ELSE LET normalized == removeNonDigits(toUpperCase(trim(postcode)))
         IN  IF Len(normalized) < 4 THEN Null ELSE SubSeq(normalized, 1, 4)

normalizePostcode(postcode) ==
    IF Falsy(postcode) THEN Null
    ELSE LET normalized == removeNonDigits(toUpperCase(trim(postcode)))
         IN  IF Len(normalized) # 4 THEN Null ELSE normalized

matchesZone(postcode, zonePostcode, isPrefix) ==
    LET normalized == normalizePostcode(postcode)
    IN  IF normalized = Null THEN FALSE
        ELSE IF isPrefix
             THEN startsWith(normalized, removeStars(zonePostcode))
             ELSE normalized = normalizePostcode(zonePostcode)

-----------------------------------------------------------------------------
(* services/zoneService.js: the two scans of findMatchingZone              *)

NoMatch == [zoneId |-> 0, warehouseId |-> 0, warehouseName |-> "", matchType |-> "none"]

MatchOf(zone, type) ==
    [zoneId |-> zone.id, warehouseId |-> zone.warehouse_id,
     warehouseName |-> zone.warehouse_name, matchType |-> type]

\* const isPrefix = zone.prefix === 1 || zone.prefix === true
IsPrefixZone(zone) == zone.prefix = 1

\* index of the first zone of the first loop that returns, 0 if none does
RECURSIVE exactScan(_, _, _)
exactScan(cache, i, normalized) ==
    IF i > Len(cache) THEN 0
    ELSE IF ~IsPrefixZone(cache[i]) /\ matchesZone(normalized, cache[i].postcode, FALSE)
         THEN i
         ELSE exactScan(cache, i + 1, normalized)

\* index of the first zone of the second loop that returns, 0 if none does
RECURSIVE prefixScan(_, _, _)
prefixScan(cache, i, normalized) ==
    IF i > Len(cache) THEN 0
    ELSE IF IsPrefixZone(cache[i]) /\ matchesZone(normalized, cache[i].postcode, TRUE)
         THEN i
         ELSE prefixScan(cache, i + 1, normalized)

scanZones_firstInOrder(cache, normalized) ==
    LET hit(i) == IF IsPrefixZone(cache[i])
                  THEN matchesZone(normalized, cache[i].postcode, TRUE)
                  ELSE matchesZone(normalized, cache[i].postcode, FALSE)
    IN  IF \E i \in 1..Len(cache) : hit(i)
        THEN LET k == CHOOSE i \in 1..Len(cache) :
                          hit(i) /\ \A j \in 1..(i - 1) : ~hit(j)
             IN  MatchOf(cache[k], IF IsPrefixZone(cache[k]) THEN "prefix" ELSE "exact")
        ELSE NoMatch

scanZones_lastPrefix(cache, normalized) ==
    LET e == exactScan(cache, 1, normalized)
        hit(i) == IsPrefixZone(cache[i]) /\ matchesZone(normalized, cache[i].postcode, TRUE)
    IN  IF e # 0 THEN MatchOf(cache[e], "exact")
        ELSE IF \E i \in 1..Len(cache) : hit(i)
             THEN LET k == CHOOSE i \in 1..Len(cache) :
                               hit(i) /\ \A j \in (i + 1)..Len(cache) : ~hit(j)
                  IN  MatchOf(cache[k], "prefix")
             ELSE NoMatch

\* lines 156-189 of findMatchingZone, on a snapshot and a normalized postcode
scanZones(cache, normalized) ==
    LET e == exactScan(cache, 1, normalized)
        p == prefixScan(cache, 1, normalized)
    IN  IF e # 0 THEN MatchOf(cache[e], "exact")
        ELSE IF p # 0 THEN MatchOf(cache[p], "prefix")
        ELSE NoMatch

-----------------------------------------------------------------------------
(* Program constants                                                       *)

\* const STANDARD_RATE = 5900
STANDARD_RATE == 5900

\* const CACHE_TTL = 5 * 60 * 1000
CACHE_TTL == 300000

\* findRecentInquiry(customerInfo.email, null, 60): minutes
DEDUP_MINUTES == 60

DedupWindowMs == DEDUP_MINUTES * 60 * 1000

\* query(sql, params, retries = 2)
QUERY_RETRIES == 2

\* loadZonesCache(retries = 3)
LOAD_RETRIES == 3

-----------------------------------------------------------------------------
(* Number formatting                                                       *)

DigitChar(d) == <<"0","1","2","3","4","5","6","7","8","9">>[d + 1]

\* String(n) for a natural number
RECURSIVE NatToStr(_)
NatToStr(n) == IF n < 10 THEN <<DigitChar(n)>>
               ELSE NatToStr(n \div 10) \o <<DigitChar(n % 10)>>

\* (price / 100).toFixed(2) for a price in whole cents
toFixed2(cents) ==
    NatToStr(cents \div 100) \o <<".">>
        \o <<DigitChar((cents % 100) \div 10), DigitChar(cents % 10)>>

\* a || b for string-or-null values
Or(a, b) == IF Falsy(a) THEN b ELSE a

\* `${x || ''}`
OrEmpty(a) == IF Falsy(a) THEN <<>> ELSE a

-----------------------------------------------------------------------------
(* middleware/security.js: validateInput                                   *)

SqlKeywords == { <<"S","E","L","E","C","T">>,
                 <<"I","N","S","E","R","T">>,
                 <<"U","P","D","A","T","E">>,
                 <<"D","E","L","E","T","E">>,
                 <<"D","R","O","P">>,
                 <<"C","R","E","A","T","E">>,
                 <<"A","L","T","E","R">>,
                 <<"E","X","E","C">>,
                 <<"U","N","I","O","N">>,
                 <<"S","C","R","I","P","T">> }

\* \w
IsWordChar(c) == IsDigit(c) \/ c = "_" \/ (\E i \in 1..26 : Lower[i] = c \/ Upper[i] = c)

\* \b at the gap before position i (1..Len(s)+1) of s
IsWordBoundary(s, i) ==
    LET before == i > 1 /\ IsWordChar(s[i - 1])
        after  == i <= Len(s) /\ IsWordChar(s[i])
    IN  before # after

HasAt(s, i, w) == i + Len(w) - 1 <= Len(s) /\ SubSeq(s, i, i + Len(w) - 1) = w

\* sqlInjectionPattern.test(value): flags gi, the pattern is created per request and
\* a failed test leaves lastIndex at 0, so each test starts at the beginning
sqlInjectionPatternTest(value) ==
    LET u == toUpperCase(value)
    IN  \E i \in 1..Len(value) :
            \/ \E k \in SqlKeywords :
                   /\ HasAt(u, i, k)
                   /\ IsWordBoundary(value, i)
                   /\ IsWordBoundary(value, i + Len(k))
            \/ HasAt(value, i, <<"-", "-">>)
            \/ HasAt(value, i, <<"/", "*">>)
            \/ HasAt(value, i, <<"*", "/">>)
            \/ value[i] = ";"

\* the string values checkValue reaches in a rate-request body
BodyStrings(body) ==
    LET fields == {body.postal_code, body.dest_postal_code, body.top_postal_code,
                   body.email, body.phone, body.address1, body.city, body.province,
                   body.first_name, body.last_name, body.currency}
                  \cup (IF body.nameKind = "string" THEN {body.name} ELSE {})
                  \cup {body.items[i].title : i \in {j \in 1..Len(body.items) : ~body.items[j].isNull}}
    IN  fields \ {Null}

\* checkValue(req.body); req.query and req.params are empty for POST /carrier/rates
checkValue(body) == \A v \in BodyStrings(body) : ~sqlInjectionPatternTest(v)

-----------------------------------------------------------------------------
(* Request bodies                                                          *)

AUD == <<"A","U","D">>
INQUIRY == <<"I","N","Q","U","I","R","Y">>
Sofa == <<"S","o","f","a">>
DropLeafTable == <<"D","r","o","p"," ","L","e","a","f"," ","T","a","b","l","e">>
Dropper == <<"D","r","o","p","p","e","r">>
Email1 == <<"a","@","x">>
Email2 == <<"b","@","y">>
Address1 == <<"1"," ","B","a","y"," ","R","d">>
Address2 == <<"9"," ","E","l","m"," ","S","t">>
Product == <<"P","r","o","d","u","c","t">>
Customer == <<"C","u","s","t","o","m","e","r">>

Item(title) == [isNull |-> FALSE, title |-> title, quantity |-> 1, price |-> 129900]

\* an element of rate.items that is JSON null
NullItem == [isNull |-> TRUE, title |-> Null, quantity |-> 0, price |-> 0]

\* a body without rate.destination
EmptyBody ==
    [postal_code |-> Null, dest_postal_code |-> Null, top_postal_code |-> Null,
     email |-> Null, phone |-> Null, address1 |-> Null, city |-> Null,
     province |-> Null, nameKind |-> "absent", name |-> Null, first_name |-> Null,
     last_name |-> Null, items |-> <<Item(Sofa)>>, currency |-> AUD]

Body(postcode, email, address) ==
    [EmptyBody EXCEPT !.postal_code = postcode, !.email = email, !.address1 = address]

-----------------------------------------------------------------------------
(* utils/postcode.js: extractPostcodeFromPayload                           *)

extractPostcodeFromPayload(body) ==
    IF ~Falsy(body.postal_code) THEN body.postal_code
    ELSE IF ~Falsy(body.dest_postal_code) THEN body.dest_postal_code
    ELSE IF ~Falsy(body.top_postal_code) THEN body.top_postal_code
    ELSE Null

-----------------------------------------------------------------------------
(* routes/rates.js: formatProductDetails, extractCustomerInfo              *)

RECURSIVE join(_, _)
join(parts, sep) ==
    IF parts = <<>> THEN <<>>
    ELSE IF Len(parts) = 1 THEN parts[1]
    ELSE parts[1] \o sep \o join(Tail(parts), sep)

formatItem(item) ==
    NatToStr(IF item.quantity = 0 THEN 1 ELSE item.quantity) \o <<"x", " ">>
        \o Or(item.title, Product) \o <<" ", "-", " ", "$">> \o toFixed2(item.price)

\* items.map(item => item.title ...) throws a TypeError on a null element
formatProductDetailsThrows(items) == \E i \in 1..Len(items) : items[i].isNull

formatProductDetails(items) == join([i \in 1..Len(items) |-> formatItem(items[i])], <<", ">>)

IndexOfSpace(s) ==
    IF \E i \in 1..Len(s) : s[i] = " "
    THEN CHOOSE i \in 1..Len(s) : s[i] = " " /\ \A j \in 1..(i - 1) : s[j] # " "
    ELSE 0

\* destination.name.trim() throws a TypeError when name is truthy and no string
extractCustomerInfoThrows(body) == Falsy(body.first_name) /\ body.nameKind = "number"

extractCustomerInfo(body) ==
    LET split == Falsy(body.first_name) /\ body.nameKind = "string" /\ ~Falsy(body.name)
        t     == trim(body.name)
        sp    == IndexOfSpace(t)
        first == IF sp = 0 THEN t ELSE SubSeq(t, 1, sp - 1)
        rest  == IF sp = 0 THEN <<>> ELSE SubSeq(t, sp + 1, Len(t))
    IN  [first_name  |-> IF split THEN Or(first, Null) ELSE Or(body.first_name, Null),
         last_name   |-> IF split THEN Or(rest, Null) ELSE Or(body.last_name, Null),
         name        |-> IF body.nameKind = "string" THEN Or(body.name, Null) ELSE Null,
         email       |-> Or(body.email, Null),
         phone       |-> Or(body.phone, Null),
         address     |-> Or(body.address1, Null),
         city        |-> Or(body.city, Null),
         province    |-> Or(body.province, Null),
         postal_code |-> Or(body.postal_code, Null)]

\* `${address}, ${city || ''}, ${province || ''} ${postcode}`.trim(), or null
fullAddressOf(customerInfo, postcode) ==
    IF Falsy(customerInfo.address) THEN Null
    ELSE trim(customerInfo.address \o <<",", " ">> \o OrEmpty(customerInfo.city)
              \o <<",", " ">> \o OrEmpty(customerInfo.province) \o <<" ">> \o postcode)

customerNameOf(customerInfo) ==
    IF ~Falsy(customerInfo.name) THEN customerInfo.name
    ELSE IF ~Falsy(customerInfo.first_name) /\ ~Falsy(customerInfo.last_name)
         THEN trim(customerInfo.first_name \o <<" ">> \o customerInfo.last_name)
         ELSE Or(customerInfo.first_name, Customer)

-----------------------------------------------------------------------------
(* routes/rates.js: the responses of handleCarrierRates                    *)

Rate(code, price, body, description) ==
    [service_code |-> code, total_price |-> price,
     currency |-> Or(body.currency, AUD), description |-> description]

\* res.json({rates: [...]}) : status 200
jsonRates(rate) == [status |-> 200, rates |-> <<rate>>]

missingPostcodeResponse_generic(body) ==
    jsonRates(Rate(INQUIRY, <<"0">>, body, "No automated rate for this postcode"))

\* lines 101-115; the description goes on: '. Please contact us for shipping.'
missingPostcodeResponse(body) ==
    jsonRates(Rate(INQUIRY, <<"0">>, body, "Postcode information is missing"))

zoneResponse_inquiryCode(body, match) ==
    jsonRates(Rate(INQUIRY, NatToStr(STANDARD_RATE), body, "Delivery from warehouse"))

zoneResponse(body, match) ==
    jsonRates(Rate(<<"Z", "O", "N", "E", "_">> \o NatToStr(match.warehouseId),
                   NatToStr(STANDARD_RATE), body, "Delivery from warehouse"))

inquiryResponse(body) ==
    jsonRates(Rate(INQUIRY, <<"0">>, body, "No automated rate for this postcode"))

errorFallbackResponse_500(body) ==
    [status |-> 500, rates |-> <<>>]

\* res.status(200).json(...) of the catch block
errorFallbackResponse(body) ==
    jsonRates(Rate(INQUIRY, <<"0">>, body, "Unable to calculate shipping rate"))

\* res.status(400).json({error: 'Invalid input', ...}) of validateInput
invalidInputResponse == [status |-> 400, rates |-> <<>>]

-----------------------------------------------------------------------------
(* Store: tables and the outcome of a statement                            *)

\* error codes query() retries on (line 59)
QueryRetryCodes == {"ETIMEDOUT", "ECONNREFUSED", "PROTOCOL_CONNECTION_LOST"}

\* the error codes a statement can fail with: the three above and, for every
\* other failure (constraint violation, malformed statement), ER_PARSE_ERROR
ErrorCodes == {"ETIMEDOUT", "ECONNREFUSED", "PROTOCOL_CONNECTION_LOST", "ER_PARSE_ERROR"}

\* a statement that fails with this code may have been applied before the failure
MayHaveApplied(code) == code = "PROTOCOL_CONNECTION_LOST"

\* how one pool.execute ends: "ok", or an error code; applied tells whether the
\* store executed the statement
Executions(codes) ==
    {[code |-> "ok", applied |-> TRUE]}
        \cup {[code |-> c, applied |-> FALSE] : c \in codes}
        \cup {[code |-> c, applied |-> TRUE] : c \in {d \in codes : MayHaveApplied(d)}}

\* what the store does to the successive executions of one query() call
Scripts(codes) == [1..QUERY_RETRIES -> Executions(codes)]

queryRetries_anyError(i, code) == i < QUERY_RETRIES - 1

\* the catch of query(): retry when attempts are left and the code is a connection code
queryRetries(i, code) == i < QUERY_RETRIES - 1 /\ code \in QueryRetryCodes

\* query(sql, params): the loop of lines 53-67 from attempt i on, given that the
\* statement was applied n times so far.  result is "ok" or the code thrown.
RECURSIVE queryFrom(_, _, _)
queryFrom(script, i, n) ==
    LET e == script[i + 1]
        m == n + (IF e.applied THEN 1 ELSE 0)
    IN  IF e.code = "ok"
        THEN [result |-> "ok", executions |-> i + 1, applied |-> m]
        ELSE IF queryRetries(i, e.code)
             THEN queryFrom(script, i + 1, m)
             ELSE [result |-> e.code, executions |-> i + 1, applied |-> m]

query(script) == queryFrom(script, 0, 0)

\* every way a query() call can end when executions fail with these codes
QueryResults(codes) == {query(script) : script \in Scripts(codes)}

\* the store fails in any way, with a refused connection only, or not at all
AnyFault == QueryResults(ErrorCodes)

Refused == QueryResults({"ECONNREFUSED"})

NoFault == QueryResults({})

\* the store cannot be reached: every execution ends with a connection error
Unreachable == {q \in QueryResults({"ECONNREFUSED", "ETIMEDOUT"}) : q.result # "ok"}

\* SELECT ... FROM zones z INNER JOIN warehouses w ... WHERE w.status = 'active'
activeZones_partial(zs, ws) ==
    LET IsActive(z) == ws[z.warehouse_id].status = "active"
        act == SelectSeq(zs, IsActive)
    IN  [i \in 1..(IF Len(act) > 1 THEN 1 ELSE Len(act)) |->
            [id |-> act[i].id, warehouse_id |-> act[i].warehouse_id,
             postcode |-> act[i].postcode, prefix |-> act[i].prefix,
             warehouse_name |-> ws[act[i].warehouse_id].name]]

activeZones(zs, ws) ==
    LET IsActive(z) == ws[z.warehouse_id].status = "active"
        act == SelectSeq(zs, IsActive)
    IN  [i \in 1..Len(act) |->
            [id |-> act[i].id, warehouse_id |-> act[i].warehouse_id,
             postcode |-> act[i].postcode, prefix |-> act[i].prefix,
             warehouse_name |-> ws[act[i].warehouse_id].name]]

-----------------------------------------------------------------------------
(* services/zoneService.js: cache state                                    *)

NullCache == [isNull |-> TRUE, rows |-> <<>>]

ArrayCache(rows) == [isNull |-> FALSE, rows |-> rows]

\* !zonesCache || zonesCache.length === 0
CacheEmpty(cache) == cache.isNull \/ Len(cache.rows) = 0

\* zonesCache && zonesCache.length > 0 && cacheAge < CACHE_TTL   (findMatchingZone)
isCacheFresh(cache, ts, t) ==
    ~cache.isNull /\ Len(cache.rows) > 0 /\ ts # 0 /\ t - ts < CACHE_TTL

ensureCacheFreshLoads_atTTL(cache, ts, t) ==
    cache.isNull \/ ts = 0 \/ t - ts >= CACHE_TTL

\* !zonesCache || !cacheTimestamp || (Date.now() - cacheTimestamp > CACHE_TTL)
ensureCacheFreshLoads(cache, ts, t) ==
    cache.isNull \/ ts = 0 \/ t - ts > CACHE_TTL

\* findMatchingZone from line 127 on: the checks after the race, then the scans
\* getCacheStatus(), as GET /health reports it
getCacheStatus ==
    [loaded |-> ~zonesCache.isNull,
     count |-> IF zonesCache.isNull THEN 0 ELSE Len(zonesCache.rows),
     timestamp |-> cacheTimestamp]

lookupInCache(cache, normalized) ==
    IF CacheEmpty(cache) THEN NoMatch ELSE scanZones(cache.rows, normalized)

\* loadZonesCache's isConnectionError; the messages of the modelled codes contain
\* neither 'timeout' nor 'disconnected'
isConnectionError(code) == code \in {"ETIMEDOUT", "ECONNREFUSED"}

\* loadZonesCache(): the loop of lines 20-67 from this attempt on; results[k] is
\* how the query() of attempt k-1 ends.  ok: the zones were read; queries: the
\* number of query() calls made
loadRetries(attempt, code) == attempt < LOAD_RETRIES - 1 /\ isConnectionError(code)

RECURSIVE loadFrom(_, _)
loadFrom(results, attempt) ==
    LET q == results[attempt + 1]
    IN  IF q.result = "ok"
        THEN [ok |-> TRUE, queries |-> attempt + 1, rejected |-> FALSE]
        ELSE IF loadRetries(attempt, q.result)
             THEN loadFrom(results, attempt + 1)
             ELSE [ok |-> FALSE, queries |-> attempt + 1, rejected |-> FALSE]

loadZonesCache_rethrows(results) ==
    LET ret == loadFrom(results, 0)
    IN  [ret EXCEPT !.rejected = ~ret.ok]

loadZonesCache(results) == loadFrom(results, 0)

\* the sleeps between the successive executions of the SELECT of one
\* loadZonesCache() call, from this attempt on; scripts[k] is what the store
\* does to the executions of the query() of attempt k-1.  query() sleeps
\* 1000 ms before it executes again (db/config.js line 62), loadZonesCache
\* Math.min(2000 * (attempt + 1), 5000) ms before its next attempt (line 47)
RECURSIVE executionDelays(_, _)
executionDelays(scripts, attempt) ==
    LET q       == query(scripts[attempt + 1])
        inQuery == [k \in 1..(q.executions - 1) |-> 1000]
        delay   == IF 2000 * (attempt + 1) < 5000 THEN 2000 * (attempt + 1) ELSE 5000
    IN  IF q.result # "ok" /\ loadRetries(attempt, q.result)
        THEN inQuery \o <<delay>> \o executionDelays(scripts, attempt + 1)
        ELSE inQuery

\* every way a loadZonesCache() call can end
LoadResults(queries) ==
    {loadZonesCache(results) : results \in [1..LOAD_RETRIES -> queries]}

AnyLoad == LoadResults(AnyFault)

CleanLoad == LoadResults(NoFault)

FailedLoad == LoadResults(Unreachable)

-----------------------------------------------------------------------------
(* Per-request processes                                                   *)

\* a loadZonesCache() call: not made, pending, or settled; ok: it read the zones
NoLoad == [pc |-> "none", ok |-> FALSE]

\* the lead steps of a request: run by the setImmediate callback of
\* unnamed/part_005, or awaited inside the handler of src/routes/rates.js (inline)
NoPipe == [pc |-> "none", inline |-> FALSE, existingId |-> 0, draftOrderId |-> 0,
           insertId |-> 0, gateway |-> "none", updated |-> FALSE,
           lookup |-> "none"]

\* the synchronous tail of handleCarrierRates once findMatchingZone has returned:
\* lines 128-182 and the setImmediate of line 186, or the catch of lines 282-304
threwIn(body) == extractCustomerInfoThrows(body) \/ formatProductDetailsThrows(body.items)

respondAfterLookup(r, body, match) ==
    /\ reqPc' = [reqPc EXCEPT ![r] = "done"]
    /\ IF match.matchType # "none"
       THEN /\ responses' = [responses EXCEPT ![r] = Append(@, zoneResponse(body, match))]
            /\ UNCHANGED <<threw, pipe>>
       ELSE IF threwIn(body)
       THEN /\ responses' = [responses EXCEPT ![r] = Append(@, errorFallbackResponse(body))]
            /\ threw' = [threw EXCEPT ![r] = TRUE]
            /\ UNCHANGED pipe
       ELSE /\ responses' = [responses EXCEPT ![r] = Append(@, inquiryResponse(body))]
            /\ pipe' = [pipe EXCEPT ![r] = [NoPipe EXCEPT !.pc = "queued"]]
            /\ UNCHANGED threw

\* src/routes/rates.js lines 103-178: the same tail in the handler that awaits
\* createDraftOrder and createInquiry before it responds; its
\* extractCustomerInfo reads no destination.name
respondAfterLookupInline(r, body, match) ==
    IF match.matchType # "none"
    THEN /\ responses' = [responses EXCEPT ![r] = Append(@, zoneResponse(body, match))]
         /\ reqPc' = [reqPc EXCEPT ![r] = "done"]
         /\ UNCHANGED <<threw, pipe>>
    ELSE IF formatProductDetailsThrows(body.items)
    THEN /\ responses' = [responses EXCEPT ![r] = Append(@, errorFallbackResponse(body))]
         /\ reqPc' = [reqPc EXCEPT ![r] = "done"]
         /\ threw' = [threw EXCEPT ![r] = TRUE]
         /\ UNCHANGED pipe
    ELSE /\ reqPc' = [reqPc EXCEPT ![r] = "awaiting"]
         /\ pipe' = [pipe EXCEPT ![r] = [NoPipe EXCEPT !.pc = "draft", !.inline = TRUE]]
         /\ UNCHANGED <<responses, threw>>

afterLookup(r, body, match, inline) ==
    IF inline THEN respondAfterLookupInline(r, body, match)
    ELSE respondAfterLookup(r, body, match)

-----------------------------------------------------------------------------
(* POST /carrier/rates: validateInput, authenticateApiKey (which passes    *)
(* this path on), then handleCarrierRates up to its first suspension.  The *)
(* two copies of the handler are the same up to the zone lookup.           *)

handleCarrierRates(r, body, inline) ==
    LET postcode   == extractPostcodeFromPayload(body)
        normalized == normalizePostcode(postcode)
    IN  IF Falsy(postcode)
        THEN /\ responses' = [responses EXCEPT ![r] = Append(@, missingPostcodeResponse(body))]
             /\ reqPc' = [reqPc EXCEPT ![r] = "done"]
             /\ UNCHANGED <<threw, pipe, load>>
        ELSE IF normalized = Null
        THEN /\ afterLookup(r, body, NoMatch, inline)
             /\ UNCHANGED load
        ELSE IF isCacheFresh(zonesCache, cacheTimestamp, now)
        THEN /\ afterLookup(r, body, scanZones(zonesCache.rows, normalized), inline)
             /\ UNCHANGED load
        ELSE IF ensureCacheFreshLoads(zonesCache, cacheTimestamp, now)
        THEN /\ load' = [load EXCEPT ![r] = [NoLoad EXCEPT !.pc = "loading"]]
             /\ reqPc' = [reqPc EXCEPT ![r] = "lookup"]
             /\ pipe' = [pipe EXCEPT ![r].inline = inline]
             /\ UNCHANGED <<responses, threw>>
        ELSE /\ afterLookup(r, body, lookupInCache(zonesCache, normalized), inline)
             /\ UNCHANGED load

\* kinds: which copies of the handler may serve the request (TRUE: inline)
Arrive(r, bodies, kinds) ==
    /\ reqPc[r] = "idle"
    /\ r > 1 => reqPc[r - 1] # "idle"
    /\ \E body \in bodies, inline \in kinds :
         /\ payload' = [payload EXCEPT ![r] = body]
         /\ quiet' = [quiet EXCEPT ![r] = \A q \in ReqIds :
                          reqPc[q] \notin {"lookup", "awaiting"}
                              /\ pipe[q].pc \in {"none", "finished"}]
         /\ IF ~checkValue(body)
            THEN /\ responses' = [responses EXCEPT ![r] = Append(@, invalidInputResponse)]
                 /\ reqPc' = [reqPc EXCEPT ![r] = "rejected"]
                 /\ UNCHANGED <<threw, pipe, load>>
            ELSE handleCarrierRates(r, body, inline)
    /\ UNCHANGED <<envVars, storeVars, cacheVars, pureVars, limitVars, zoneReq>>

\* the request's continuation when the race of line 125 is decided
resumeLookup(r, cache) ==
    IF r \in ReqIds /\ reqPc[r] = "lookup"
    THEN afterLookup(r, payload[r],
                     lookupInCache(cache, normalizePostcode(extractPostcodeFromPayload(payload[r]))),
                     pipe[r].inline)
    ELSE UNCHANGED <<reqPc, responses, threw, pipe>>

LookupTimeout_awaitsLoad(r) ==
    /\ reqPc[r] = "lookup"
    /\ load[r].pc = "done"
    /\ resumeLookup(r, zonesCache)
    /\ UNCHANGED <<payload, quiet, load, envVars, storeVars, cacheVars, pureVars, limitVars, zoneReq>>

\* the timeoutPromise of findMatchingZone wins the race; the load goes on
LookupTimeout(r) ==
    /\ reqPc[r] = "lookup"
    /\ resumeLookup(r, zonesCache)
    /\ UNCHANGED <<payload, quiet, load, envVars, storeVars, cacheVars, pureVars, limitVars, zoneReq>>

cacheAfterFailure_clears(cache) == ArrayCache(<<>>)

cacheAfterFailure_keepsNull(cache) == cache

\* the cache after a load gave up: lines 60-65 of loadZonesCache
cacheAfterFailure(cache) == IF CacheEmpty(cache) THEN ArrayCache(<<>>) ELSE cache

\* a loadZonesCache() call settles: the snapshot is replaced (lines 35-36), or
\* the load gave up (lines 60-65); the request that awaits it goes on
LoadDone(l, loads) ==
    /\ load[l].pc = "loading"
    /\ \E res \in loads :
         /\ zonesCache' = IF res.ok THEN ArrayCache(activeZones(zones, warehouses))
                          ELSE cacheAfterFailure(zonesCache)
         /\ cacheTimestamp' = IF res.ok \/ CacheEmpty(zonesCache) THEN now ELSE cacheTimestamp
         /\ load' = [load EXCEPT ![l] = [pc |-> "done", ok |-> res.ok]]
    /\ resumeLookup(l, zonesCache')
    /\ UNCHANGED <<payload, quiet, envVars, storeVars, pureVars, limitVars, zoneReq>>

-----------------------------------------------------------------------------
(* routes/rates.js lines 186-280: the setImmediate callback                *)

\* what the callback closes over
pipePostcode(r) == extractPostcodeFromPayload(payload[r])

pipeCustomer(r) == extractCustomerInfo(payload[r])

pipeProductDetails(r) == formatProductDetails(payload[r].items)

recentInquiries_anyStatus(rows, email, t) ==
    {i \in 1..Len(rows) :
        /\ rows[i].email = email
        /\ rows[i].created_at > t - DedupWindowMs}

\* findRecentInquiry's SELECT: rows of this email, status 'new', younger than the window
recentInquiries(rows, email, t) ==
    {i \in 1..Len(rows) :
        /\ rows[i].email = email
        /\ rows[i].created_at > t - DedupWindowMs
        /\ rows[i].status = "new"}

\* ORDER BY created_at DESC LIMIT 1: the candidates (ties are in no defined order)
mostRecent(rows, ids) == {i \in ids : \A j \in ids : rows[j].created_at <= rows[i].created_at}

\* COALESCE(?, column)
COALESCE(param, column) == IF param = Null THEN column ELSE param

updatedRow_reopens(row, address, postcode, product_details) ==
    [row EXCEPT !.address = COALESCE(address, @),
                !.postcode = COALESCE(postcode, @),
                !.product_details = COALESCE(product_details, @),
                !.status = "new"]

\* the UPDATE of updateInquiry, applied to the row with this id
updatedRow(row, address, postcode, product_details) ==
    [row EXCEPT !.address = COALESCE(address, @),
                !.postcode = COALESCE(postcode, @),
                !.product_details = COALESCE(product_details, @)]

\* the row createInquiry's INSERT adds; x || null turns '' into NULL
insertedRow_requireDraft(id, r, draftOrderId, t) ==
    [id |-> id, draft_order_id |-> draftOrderId,
     customer_name |-> customerNameOf(pipeCustomer(r)),
     email |-> pipeCustomer(r).email, phone |-> pipeCustomer(r).phone,
     address |-> fullAddressOf(pipeCustomer(r), pipePostcode(r)),
     postcode |-> pipePostcode(r),
     product_details |-> Or(pipeProductDetails(r), Null),
     status |-> IF draftOrderId = 0 THEN "closed" ELSE "new", created_at |-> t]

insertedRow(id, r, draftOrderId, t) ==
    [id |-> id, draft_order_id |-> draftOrderId,
     customer_name |-> customerNameOf(pipeCustomer(r)),
     email |-> pipeCustomer(r).email, phone |-> pipeCustomer(r).phone,
     address |-> fullAddressOf(pipeCustomer(r), pipePostcode(r)),
     postcode |-> pipePostcode(r),
     product_details |-> Or(pipeProductDetails(r), Null),
     status |-> "new", created_at |-> t]

\* src/routes/rates.js lines 146-159: the row of the inline handler, whose
\* customer name is built from first and last name only and whose address
\* ends with destination.postal_code
insertedRowInline(id, r, draftOrderId, t) ==
    LET body == payload[r]
        name == IF ~Falsy(body.first_name) /\ ~Falsy(body.last_name)
                THEN trim(body.first_name \o <<" ">> \o body.last_name)
                ELSE Or(body.first_name, Customer)
        info == [address |-> body.address1, city |-> body.city, province |-> body.province]
    IN  [id |-> id, draft_order_id |-> draftOrderId,
         customer_name |-> name,
         email |-> Or(body.email, Null), phone |-> Or(body.phone, Null),
         address |-> fullAddressOf(info, OrEmpty(body.postal_code)),
         postcode |-> pipePostcode(r),
         product_details |-> Or(pipeProductDetails(r), Null),
         status |-> "new", created_at |-> t]

rowToInsert(id, r, draftOrderId, t) ==
    IF pipe[r].inline THEN insertedRowInline(id, r, draftOrderId, t)
    ELSE insertedRow(id, r, draftOrderId, t)

PipeStart_alwaysFinds(r) ==
    /\ pipe[r].pc = "queued"
    /\ pipe' = [pipe EXCEPT ![r].pc = "find"]
    /\ UNCHANGED <<reqPc, payload, quiet, responses, threw, load, envVars, storeVars, cacheVars, pureVars, limitVars, zoneReq>>

\* setImmediate fires: findRecentInquiry returns null at once without an email,
\* otherwise its SELECT is issued
PipeStart(r) ==
    /\ pipe[r].pc = "queued"
    /\ pipe' = [pipe EXCEPT ![r].pc = IF Falsy(pipeCustomer(r).email) THEN "draft" ELSE "find"]
    /\ UNCHANGED <<reqPc, payload, quiet, responses, threw, load, envVars, storeVars, cacheVars, pureVars, limitVars, zoneReq>>

afterFind_alsoCreates(r, found, lookup) ==
    IF found = {}
    THEN pipe' = [pipe EXCEPT ![r].pc = "draft", ![r].lookup = lookup]
    ELSE \E i \in found :
            pipe' = [pipe EXCEPT ![r].pc = "draft", ![r].existingId = i,
                                 ![r].lookup = lookup]

\* what the pipeline does with the result of the dedup lookup
afterFind(r, found, lookup) ==
    IF found = {}
    THEN pipe' = [pipe EXCEPT ![r].pc = "draft", ![r].lookup = lookup]
    ELSE \E i \in found :
            pipe' = [pipe EXCEPT ![r].pc = "update", ![r].existingId = i,
                                 ![r].lookup = lookup]

\* the query() of findRecentInquiry settles; findRecentInquiry turns an error
\* into null
PipeFindDone(r, queries) ==
    /\ pipe[r].pc = "find"
    /\ \E q \in queries :
         IF q.result = "ok"
         THEN afterFind(r, mostRecent(inquiries,
                           recentInquiries(inquiries, pipeCustomer(r).email, now)),
                        "answered")
         ELSE afterFind(r, {}, "failed")
    /\ UNCHANGED <<reqPc, payload, quiet, responses, threw, load, envVars, storeVars, cacheVars, pureVars, limitVars, zoneReq>>

\* the query() of updateInquiry's UPDATE settles.  updateData carries no
\* draft_order_id, so the third bind parameter is undefined: the driver either
\* rejects the call (TypeError, no code, not retried) or binds NULL.  The SELECT
\* that follows reads only.
PipeUpdateDone(r, queries) ==
    /\ pipe[r].pc = "update"
    /\ \E undefinedBind \in {"rejected", "null"}, q \in queries :
         IF undefinedBind = "rejected"
         THEN /\ pipe' = [pipe EXCEPT ![r].pc = "finished"]
              /\ UNCHANGED inquiries
         ELSE /\ inquiries' = IF q.applied > 0
                     THEN [inquiries EXCEPT ![pipe[r].existingId] =
                             updatedRow(@, fullAddressOf(pipeCustomer(r), pipePostcode(r)),
                                        pipePostcode(r), pipeProductDetails(r))]
                     ELSE inquiries
              /\ pipe' = [pipe EXCEPT ![r].pc = "finished", ![r].updated = (q.result = "ok")]
    /\ UNCHANGED <<reqPc, payload, quiet, responses, threw, load, envVars, warehouses, zones,
                   draftOrders, cacheVars, pureVars, limitVars, zoneReq>>

\* axios.post of createDraftOrder settles: the order was created and its id
\* returned ("ok"), the call failed ("failed"), or the order was created and
\* the answer lost ("lost"); then createInquiry's INSERT is issued
GatewayOutcomes == {"ok", "failed", "lost"}

draftOrderIdAfter(outcome, id) == IF outcome = "ok" THEN id ELSE 0

PipeDraftDone(r, outcomes) ==
    /\ pipe[r].pc = "draft"
    /\ \E outcome \in outcomes :
         LET id == 100 + Len(draftOrders) + 1
         IN  /\ draftOrders' = IF outcome = "failed" THEN draftOrders
                               ELSE Append(draftOrders,
                                        [id |-> id, email |-> pipeCustomer(r).email, by |-> r])
             /\ pipe' = [pipe EXCEPT ![r].pc = "insert", ![r].gateway = outcome,
                                     ![r].draftOrderId = draftOrderIdAfter(outcome, id)]
    /\ UNCHANGED <<reqPc, payload, quiet, responses, threw, load, envVars, warehouses, zones,
                   inquiries, cacheVars, pureVars, limitVars, zoneReq>>

\* the rows after the INSERT was applied n times at time t
RECURSIVE insertTimes(_, _, _, _, _)
insertTimes(rows, n, r, draftOrderId, t) ==
    IF n = 0 THEN rows
    ELSE insertTimes(Append(rows, rowToInsert(Len(rows) + 1, r, draftOrderId, t)),
                     n - 1, r, draftOrderId, t)

\* the query() of createInquiry's INSERT settles; insertId is that of the
\* execution that returned.  The SELECT that follows reads only.
PipeInsertDone(r, queries) ==
    /\ pipe[r].pc = "insert"
    /\ \E q \in queries :
         /\ inquiries' = insertTimes(inquiries, q.applied, r, pipe[r].draftOrderId, now)
         /\ pipe' = [pipe EXCEPT ![r].pc = "finished",
                                 ![r].insertId = IF q.result = "ok" THEN Len(inquiries') ELSE 0]
    /\ IF pipe[r].inline
       THEN /\ responses' = [responses EXCEPT ![r] = Append(@, inquiryResponse(payload[r]))]
            /\ reqPc' = [reqPc EXCEPT ![r] = "done"]
       ELSE UNCHANGED <<reqPc, responses>>
    /\ UNCHANGED <<payload, quiet, threw, load, envVars, warehouses, zones,
                   draftOrders, cacheVars, pureVars, limitVars, zoneReq>>

-----------------------------------------------------------------------------
(* Environment                                                             *)

\* time passes: a moment, past the cache TTL, or past the dedup window
TickSteps == {1000, CACHE_TTL + 1, DedupWindowMs}

Tick(steps) ==
    /\ ticks < MaxTicks
    /\ \E d \in steps : now' = now + d
    /\ ticks' = ticks + 1
    /\ UNCHANGED <<storeVars, cacheVars, reqVars, pureVars, limitVars, zoneReq>>

-----------------------------------------------------------------------------
(* server.js: initializeDatabase                                           *)

\* testConnection succeeded, loadZonesCache() is started and not awaited
StartupLoad ==
    /\ load[0].pc = "none"
    /\ \A r \in ReqIds : reqPc[r] = "idle"
    /\ load' = [load EXCEPT ![0] = [NoLoad EXCEPT !.pc = "loading"]]
    /\ UNCHANGED <<reqPc, payload, quiet, responses, threw, pipe, envVars, storeVars, cacheVars, pureVars, limitVars, zoneReq>>

-----------------------------------------------------------------------------
(* middleware/security.js: createRateLimiter, seen by one client key        *)
(* (`${ip}:${userAgent}`); server.js mounts it twice                        *)

RateWindowMs == 60000

CarrierRateLimit == 200

DefaultRateLimit == 100

\* rateLimitStore has no entry for the key
NoRecord == [has |-> FALSE, count |-> 0, resetTime |-> 0]

NotLimited == [path |-> "none", status |-> 0, carrier |-> 0, other |-> 0]

\* one run of the middleware returned by createRateLimiter(windowMs,
\* maxRequests): the record it leaves in the store and whether it calls next()
createRateLimiter(windowMs, maxRequests, record) ==
    IF ~record.has \/ now > record.resetTime
    THEN [record |-> [has |-> TRUE, count |-> 1, resetTime |-> now + windowMs],
          next |-> TRUE, fresh |-> TRUE]
    ELSE IF record.count >= maxRequests
         THEN [record |-> record, next |-> FALSE, fresh |-> FALSE]
         ELSE [record |-> [record EXCEPT !.count = @ + 1],
               next |-> TRUE, fresh |-> FALSE]

\* POST /carrier/rates passes the limiter mounted on '/carrier/rates' and then
\* the limiter mounted on every path; both use the one rateLimitStore
CarrierRatesRequest ==
    LET first  == createRateLimiter(RateWindowMs, CarrierRateLimit, rateLimitStore)
        second == createRateLimiter(RateWindowMs, DefaultRateLimit, first.record)
        window == IF first.fresh THEN NotLimited ELSE limited
    IN  /\ rateLimitStore' = IF first.next THEN second.record ELSE first.record
        /\ limited' = IF first.next /\ second.next
                      THEN [window EXCEPT !.path = "carrier", !.status = 0,
                                          !.carrier = @ + 1]
                      ELSE [window EXCEPT !.path = "carrier", !.status = 429]
        /\ UNCHANGED <<sysVars, pureVars, zoneReq>>

\* a request to any other path passes the limiter mounted on every path
OtherRequest ==
    LET only   == createRateLimiter(RateWindowMs, DefaultRateLimit, rateLimitStore)
        window == IF only.fresh THEN NotLimited ELSE limited
    IN  /\ rateLimitStore' = only.record
        /\ limited' = IF only.next
                      THEN [window EXCEPT !.path = "other", !.status = 0,
                                          !.other = @ + 1]
                      ELSE [window EXCEPT !.path = "other", !.status = 429]
        /\ UNCHANGED <<sysVars, pureVars, zoneReq>>

\* the setInterval callback deletes an expired record
cleanupRateLimits ==
    /\ rateLimitStore.has
    /\ now > rateLimitStore.resetTime
    /\ rateLimitStore' = NoRecord
    /\ UNCHANGED <<limited, sysVars, pureVars, zoneReq>>

-----------------------------------------------------------------------------
(* routes/warehouses.js: addZone, one step per await, for requests that     *)
(* run at the same time                                                     *)

ZoneReqIds == 1..2

NoZoneReq == [pc |-> "idle", warehouseId |-> 0, postcode |-> Null, raw |-> Null,
              prefix |-> 0, status |-> 0, insertId |-> 0]

-----------------------------------------------------------------------------
(* Initial state: tables as seeded, nothing cached, no request yet         *)

PC3005 == <<"3","0","0","5">>
PC3011 == <<"3","0","1","1">>
PC9000 == <<"9","0","0","0">>
PC9001 == <<"9","0","0","1">>
PCBad  == <<"3","-","0","K","0">>

SeedWarehouses ==
    (1 :> [name |-> "A", status |-> "active"]) @@
    (2 :> [name |-> "B", status |-> "active"]) @@
    (3 :> [name |-> "C", status |-> "inactive"])

SeedZones ==
    << [id |-> 1, warehouse_id |-> 2, postcode |-> <<"3", "0">>, prefix |-> 1],
       [id |-> 2, warehouse_id |-> 1, postcode |-> PC3005, prefix |-> 0],
       [id |-> 3, warehouse_id |-> 3, postcode |-> PC9000, prefix |-> 0] >>

PureIdle ==
    /\ callArg = Null
    /\ callCache = <<>>
    /\ callRet = NoMatch
    /\ called = FALSE

SysInit ==
    /\ now = 1
    /\ ticks = 0
    /\ warehouses = SeedWarehouses
    /\ zones = SeedZones
    /\ inquiries = <<>>
    /\ draftOrders = <<>>
    /\ zonesCache = NullCache
    /\ cacheTimestamp = 0
    /\ reqPc = [r \in ReqIds |-> "idle"]
    /\ payload = [r \in ReqIds |-> EmptyBody]
    /\ quiet = [r \in ReqIds |-> FALSE]
    /\ responses = [r \in ReqIds |-> <<>>]
    /\ threw = [r \in ReqIds |-> FALSE]
    /\ load = [l \in Loaders |-> NoLoad]
    /\ pipe = [r \in ReqIds |-> NoPipe]
    /\ rateLimitStore = NoRecord
    /\ limited = NotLimited
    /\ zoneReq = [a \in ZoneReqIds |-> NoZoneReq]

-----------------------------------------------------------------------------
(* SpecOne: one rate request, any body, served by either copy of the      *)
(* handler, against the cache, the store in any state, the gateway and the *)
(* clock                                                                   *)

RateBodies ==
    { EmptyBody,
      [EmptyBody EXCEPT !.top_postal_code = PC3011],
      Body(PCBad, Email1, Address1),
      Body(PC3005, Email1, Address1),
      Body(PC3011, Null, Null),
      Body(PC9000, Email1, Address1),
      Body(PC9001, Null, Address2),
      [Body(PC9000, Email2, Address2) EXCEPT !.nameKind = "number"],
      [Body(PC9000, Email2, Address2) EXCEPT !.items = <<NullItem>>],
      [Body(PC3005, Email2, Address2) EXCEPT !.items = <<Item(DropLeafTable)>>],
      [Body(PC3005, Email2, Address2) EXCEPT !.items = <<Item(Dropper)>>] }

InitOne == SysInit /\ PureIdle

NextOne ==
    \/ StartupLoad
    \/ Arrive(1, RateBodies, BOOLEAN)
    \/ LookupTimeout(1)
    \/ \E l \in {0, 1} : LoadDone(l, AnyLoad)
    \/ PipeStart(1)
    \/ PipeFindDone(1, AnyFault)
    \/ PipeDraftDone(1, GatewayOutcomes)
    \/ PipeInsertDone(1, AnyFault)
    \/ Tick(TickSteps)

SpecOne == InitOne /\ [][NextOne]_vars

-----------------------------------------------------------------------------
(* Spec: rate requests of returning customers, handled concurrently: each  *)
(* request, load and pipeline advances one await at a time                 *)

CustomerBodies ==
    { Body(PC9000, Email1, Address1),
      Body(PC9001, Email1, Null),
      Body(PC9000, Email2, Address2),
      Body(PC9000, Null, Address1) }

Init == SysInit /\ PureIdle

Next ==
    \/ StartupLoad
    \/ \E r \in ReqIds : Arrive(r, CustomerBodies, {FALSE})
    \/ \E r \in ReqIds : LookupTimeout(r)
    \/ \E l \in Loaders : LoadDone(l, CleanLoad)
    \/ \E r \in ReqIds : PipeStart(r)
    \/ \E r \in ReqIds : PipeFindDone(r, Refused)
    \/ \E r \in ReqIds : PipeUpdateDone(r, Refused)
    \/ \E r \in ReqIds : PipeDraftDone(r, {"ok", "failed"})
    \/ \E r \in ReqIds : PipeInsertDone(r, Refused)
    \/ Tick(TickSteps)

Spec == Init /\ [][Next]_vars

-----------------------------------------------------------------------------
(* SpecNorm: normalizePostcode applied to null and to every short string   *)
(* over digits, a separator, a letter and a blank                          *)

PostcodeChars == {"3", "0", "-", "K", " "}

StringsUpTo(chars, n) == UNION {[1..k -> chars] : k \in 0..n}

PostcodeInputs == {Null} \cup StringsUpTo(PostcodeChars, MaxPostcodeLen)

InitNorm ==
    /\ SysInit
    /\ callArg \in PostcodeInputs
    /\ callCache = <<>>
    /\ callRet = Null
    /\ called = FALSE

CallNormalizePostcode ==
    /\ ~called
    /\ callRet' = normalizePostcode(callArg)
    /\ called' = TRUE
    /\ UNCHANGED <<callArg, callCache, sysVars, limitVars, zoneReq>>

NextNorm == CallNormalizePostcode

SpecNorm == InitNorm /\ [][NextNorm]_vars

-----------------------------------------------------------------------------
(* SpecMatch: findMatchingZone on a fresh snapshot, for every snapshot of  *)
(* up to MaxZones zones of the kinds the store holds: exact zones of four  *)
(* digits (addZone, seed), prefix zones of two digits (seed), of four      *)
(* digits (addZone), and the '30*' form of the schema                      *)

ZonePool ==
    { [id |-> 1, warehouse_id |-> 1, warehouse_name |-> "A", postcode |-> PC3005, prefix |-> 0],
      [id |-> 2, warehouse_id |-> 2, warehouse_name |-> "B", postcode |-> <<"3", "0">>, prefix |-> 1],
      [id |-> 3, warehouse_id |-> 3, warehouse_name |-> "C", postcode |-> <<"3", "0", "*">>, prefix |-> 1],
      [id |-> 4, warehouse_id |-> 3, warehouse_name |-> "C", postcode |-> PC3011, prefix |-> 0],
      [id |-> 5, warehouse_id |-> 2, warehouse_name |-> "B", postcode |-> PC3005, prefix |-> 1],
      [id |-> 6, warehouse_id |-> 1, warehouse_name |-> "A", postcode |-> <<"3", "1">>, prefix |-> 1] }

Snapshots ==
    {s \in StringsUpTo(ZonePool, MaxZones) :
        \A i, j \in 1..Len(s) : s[i].id = s[j].id => i = j}

LookupInputs ==
    {Null, PCBad, PC3005, PC3011, PC9000, <<"3", "1", "0", "5">>, <<"3", "0", " ", "0", "5">>}

\* findMatchingZone with a fresh snapshot: normalization (lines 98-102), the
\* emptiness check and the two scans
findMatchingZone(cache, postcode) ==
    LET normalized == normalizePostcode(postcode)
    IN  IF normalized = Null THEN NoMatch
        ELSE lookupInCache(ArrayCache(cache), normalized)

InitMatch ==
    /\ SysInit
    /\ callArg \in LookupInputs
    /\ callCache \in Snapshots
    /\ callRet = NoMatch
    /\ called = FALSE

CallFindMatchingZone ==
    /\ ~called
    /\ callRet' = findMatchingZone(callCache, callArg)
    /\ called' = TRUE
    /\ UNCHANGED <<callArg, callCache, sysVars, limitVars, zoneReq>>

NextMatch == CallFindMatchingZone

SpecMatch == InitMatch /\ [][NextMatch]_vars

-----------------------------------------------------------------------------
(* SpecQuery: query() and loadZonesCache() applied to every way the store  *)
(* can treat the executions of the statement: callArg[k] is what it does   *)
(* to the executions of the k-th query() call, each execution succeeding   *)
(* or failing with one of the error codes                                  *)

InitQuery ==
    /\ SysInit
    /\ callArg \in [1..LOAD_RETRIES -> Scripts(ErrorCodes)]
    /\ callCache = <<>>
    /\ callRet = Null
    /\ called = FALSE

\* one query() call
CallQuery ==
    /\ ~called
    /\ callRet' = query(callArg[1])
    /\ callCache' = <<"query">>
    /\ called' = TRUE
    /\ UNCHANGED <<callArg, sysVars, limitVars, zoneReq>>

\* one loadZonesCache() call with the query() calls it makes; executions: how
\* often the SELECT was executed; delays: the sleeps between the executions
CallLoadZonesCache ==
    LET results == [k \in 1..LOAD_RETRIES |-> query(callArg[k])]
        ret     == loadZonesCache(results)
        SumOf[k \in 0..LOAD_RETRIES] ==
            IF k = 0 THEN 0 ELSE SumOf[k - 1] + results[k].executions
    IN  /\ ~called
        /\ callRet' = [ok |-> ret.ok, queries |-> ret.queries,
                       rejected |-> ret.rejected,
                       executions |-> SumOf[ret.queries],
                       delays |-> executionDelays(callArg, 0)]
        /\ callCache' = <<"load">>
        /\ called' = TRUE
        /\ UNCHANGED <<callArg, sysVars, limitVars, zoneReq>>

NextQuery == CallQuery \/ CallLoadZonesCache

SpecQuery == InitQuery /\ [][NextQuery]_vars

-----------------------------------------------------------------------------
(* The rate limiters alone: one client sends requests to /carrier/rates and *)
(* to other paths; the handlers behind the limiters are left out            *)

InitLimit == SysInit /\ PureIdle

NextLimit ==
    \/ CarrierRatesRequest
    \/ OtherRequest
    \/ cleanupRateLimits
    \/ Tick({1000, RateWindowMs + 1})

SpecLimit == InitLimit /\ [][NextLimit]_vars

-----------------------------------------------------------------------------
(* Properties of the pure functions                                        *)

\* C6: normalizePostcode returns the digits of its input, in order, when the
\* input holds exactly four digits, and null in every other case, null input
\* included; '3000' gives '3000', '3-0K0' and null give null.
C6_NormalizeFourDigits ==
    /\ normalizePostcode(<<"3", "0", "0", "0">>) = <<"3", "0", "0", "0">>
    /\ normalizePostcode(PCBad) = Null
    /\ normalizePostcode(Null) = Null
    /\ called =>
         LET digitAt == IF callArg = Null THEN {}
                        ELSE {i \in 1..Len(callArg) : callArg[i] \in Digits}
             rank(i) == Cardinality({j \in digitAt : j <= i})
         IN  IF Cardinality(digitAt) = 4
             THEN /\ callRet # Null
                  /\ Len(callRet) = 4
                  /\ \A i \in digitAt : callRet[rank(i)] = callArg[i]
             ELSE callRet = Null

\* a string of four digits with a blank in it was normalized to its digits
C6_Witness ==
    /\ called
    /\ callArg = <<"3", " ", "0", "0", "0">>
    /\ callRet = <<"3", "0", "0", "0">>

\* C4: on a non-empty snapshot holding an exact zone whose pattern equals the
\* normalized postcode, findMatchingZone answers matchType 'exact' with the
\* zone and warehouse of such an exact zone, whatever prefix zones match and
\* wherever they stand in the snapshot.
C4_ExactPrecedence ==
    called =>
        LET p == normalizePostcode(callArg)
            exact == {i \in 1..Len(callCache) :
                         callCache[i].prefix = 0 /\ callCache[i].postcode = p}
        IN  (p # Null /\ exact # {}) =>
                /\ callRet.matchType = "exact"
                /\ \E i \in exact :
                     /\ callRet.zoneId = callCache[i].id
                     /\ callRet.warehouseId = callCache[i].warehouse_id
                     /\ callRet.warehouseName = callCache[i].warehouse_name

\* prefix zone '30' of warehouse B stands before exact zone '3005' of warehouse
\* A, and 3005 resolved to A
C4_Witness ==
    /\ called
    /\ callArg = PC3005
    /\ Len(callCache) >= 2
    /\ callCache[1].prefix = 1 /\ callCache[1].postcode = <<"3", "0">>
    /\ callCache[2].prefix = 0 /\ callCache[2].postcode = PC3005
    /\ callRet.matchType = "exact"
    /\ callRet.warehouseId = 1

\* C5: for a valid postcode with no equal exact zone, findMatchingZone answers
\* matchType 'prefix' with the first zone in snapshot order that is flagged
\* prefix and whose pattern, '*' removed, is a string prefix of the normalized
\* postcode; when there is no such zone either, it answers unmatched.
C5_FirstPrefixInOrder ==
    called =>
        LET p == normalizePostcode(callArg)
            exact == {i \in 1..Len(callCache) :
                         callCache[i].prefix = 0 /\ callCache[i].postcode = p}
            bare(s) == SelectSeq(s, LAMBDA c : c # "*")
            isPrefixOf(s, t) == \E k \in 0..Len(t) : s = [i \in 1..k |-> t[i]]
            pref == {i \in 1..Len(callCache) :
                        callCache[i].prefix = 1 /\ isPrefixOf(bare(callCache[i].postcode), p)}
        IN  (p # Null /\ exact = {}) =>
                IF pref = {}
                THEN callRet.matchType = "none"
                ELSE LET first == CHOOSE i \in pref : \A j \in pref : i <= j
                     IN  /\ callRet.matchType = "prefix"
                         /\ callRet.zoneId = callCache[first].id
                         /\ callRet.warehouseId = callCache[first].warehouse_id

\* two prefix zones of different warehouses match 3011, which has no exact zone
\* in the snapshot; the one standing first was returned
C5_Witness ==
    /\ called
    /\ callArg = PC3011
    /\ Len(callCache) >= 2
    /\ callCache[1].prefix = 1 /\ callCache[1].postcode = <<"3", "0", "*">>
    /\ callCache[2].prefix = 1 /\ callCache[2].postcode = <<"3", "0">>
    /\ callRet.matchType = "prefix"
    /\ callRet.zoneId = callCache[1].id

-----------------------------------------------------------------------------
(* Properties of one rate request                                          *)

\* C1: a request handled by handleCarrierRates never has more than one
\* response and has exactly one once the handler is through; the response is
\* a 200 with one rate, either ZONE_<warehouseId> at '5900' or INQUIRY at '0'.
C1_OneRateResponse ==
    \A r \in ReqIds :
        reqPc[r] \notin {"idle", "rejected"} =>
            /\ Len(responses[r]) <= 1
            /\ reqPc[r] = "done" => Len(responses[r]) = 1
            /\ \A k \in 1..Len(responses[r]) :
                 LET res == responses[r][k]
                 IN  /\ res.status = 200
                     /\ Len(res.rates) = 1
                     /\ \/ /\ res.rates[1].service_code = <<"I", "N", "Q", "U", "I", "R", "Y">>
                           /\ res.rates[1].total_price = <<"0">>
                        \/ /\ \E w \in DOMAIN warehouses :
                                res.rates[1].service_code =
                                    <<"Z", "O", "N", "E", "_">> \o NatToStr(w)
                           /\ res.rates[1].total_price = <<"5", "9", "0", "0">>

\* a request for 3005 was answered with the rate of warehouse 1
C1_Witness ==
    /\ reqPc[1] = "done"
    /\ extractPostcodeFromPayload(payload[1]) = PC3005
    /\ Len(responses[1]) = 1
    /\ responses[1][1].rates[1].service_code = <<"Z", "O", "N", "E", "_", "1">>

\* C2: every response to POST /carrier/rates is a 200 carrying a rates array
\* with a rate in it, whatever text the body's fields hold.
C2_AlwaysSuccess ==
    \A r \in ReqIds : \A k \in 1..Len(responses[r]) :
        responses[r][k].status = 200 /\ Len(responses[r][k].rates) >= 1

\* C3: when the synchronous path of handleCarrierRates throws, the request is
\* answered once, with status 200 and the single INQUIRY rate at '0'.
C3_ThrowGivesInquiry ==
    \A r \in ReqIds :
        threw[r] =>
            /\ reqPc[r] = "done"
            /\ Len(responses[r]) = 1
            /\ responses[r][1].status = 200
            /\ Len(responses[r][1].rates) = 1
            /\ responses[r][1].rates[1].service_code = <<"I", "N", "Q", "U", "I", "R", "Y">>
            /\ responses[r][1].rates[1].total_price = <<"0">>

\* destination.name was a number and extractCustomerInfo threw
C3_Witness ==
    /\ threw[1]
    /\ payload[1].nameKind = "number"
    /\ Len(responses[1]) = 1

\* C7: whenever the pipeline of a request is queued, running or finished, the
\* INQUIRY response of that request has been sent and the handler is through:
\* no pipeline step comes before the response.
C7_ResponseBeforePipeline ==
    \A r \in ReqIds :
        pipe[r].pc # "none" =>
            /\ reqPc[r] = "done"
            /\ Len(responses[r]) = 1
            /\ responses[r][1].rates[1].service_code = <<"I", "N", "Q", "U", "I", "R", "Y">>

\* C10: on the create branch the INSERT is issued whatever the gateway
\* answered, and the row a successful INSERT leaves has status 'new' and
\* carries the id the gateway returned, or null when the gateway call failed.
C10_LeadSurvivesGatewayFailure ==
    \A r \in ReqIds :
        /\ pipe[r].gateway # "none" => pipe[r].pc \in {"insert", "finished"}
        /\ (pipe[r].pc = "finished" /\ pipe[r].insertId # 0) =>
              LET row == inquiries[pipe[r].insertId]
              IN  /\ row.status = "new"
                  /\ row.postcode = extractPostcodeFromPayload(payload[r])
                  /\ IF pipe[r].gateway = "ok"
                     THEN \E k \in 1..Len(draftOrders) :
                             draftOrders[k].by = r /\ row.draft_order_id = draftOrders[k].id
                     ELSE row.draft_order_id = 0

\* the gateway call failed and the lead was stored without an order reference
C10_Witness ==
    /\ pipe[1].pc = "finished"
    /\ pipe[1].gateway = "failed"
    /\ pipe[1].insertId # 0
    /\ inquiries[pipe[1].insertId].status = "new"
    /\ inquiries[pipe[1].insertId].draft_order_id = 0

-----------------------------------------------------------------------------
(* Properties of the pipelines of returning customers                      *)

\* C8: while every request so far arrived within one dedup window, no email
\* has more than one draft order at the gateway and no email has more than
\* one inquiry row with status 'new'.
C8_OncePerEmailAndWindow ==
    now < 1 + DedupWindowMs =>
        \A e \in {Email1, Email2} :
            /\ Cardinality({k \in 1..Len(draftOrders) : draftOrders[k].email = e}) <= 1
            /\ Cardinality({i \in 1..Len(inquiries) :
                               inquiries[i].email = e /\ inquiries[i].status = "new"}) <= 1

\* C9: when the second request of an email arrived, within the window, after
\* the first one's pipeline had stored its lead and finished, and the second
\* pipeline has updated that lead, the table holds one row for the email and
\* the row's postcode and address are those of the second request (no address
\* when the second request has no street address).
C9_UpdateCarriesLatestRequest ==
    ( /\ now < 1 + DedupWindowMs
      /\ reqPc[1] = "done" /\ reqPc[2] = "done" /\ quiet[2]
      /\ pipeCustomer(1).email # Null
      /\ pipeCustomer(1).email = pipeCustomer(2).email
      /\ pipe[1].pc = "finished" /\ pipe[1].insertId # 0
      /\ pipe[2].pc = "finished" /\ pipe[2].existingId = pipe[1].insertId /\ pipe[2].updated )
    => LET rows == {i \in 1..Len(inquiries) : inquiries[i].email = pipeCustomer(2).email}
       IN  /\ Cardinality(rows) = 1
           /\ \A i \in rows :
                /\ inquiries[i].postcode = extractPostcodeFromPayload(payload[2])
                /\ inquiries[i].address =
                       IF Falsy(payload[2].address1) THEN Null
                       ELSE fullAddressOf(pipeCustomer(2), pipePostcode(2))

-----------------------------------------------------------------------------
(* routes/warehouses.js: the routes that change what the zone load reads.  *)
(* Each runs its store statements, awaits refreshCache() and responds; the *)
(* action is the route up to the await of refreshCache, with its           *)
(* statements succeeding, and load[AdminLoader] is the route's position:   *)
(* none (not called), loading (refreshCache pending), done (responded).    *)
(* A route that answers 400, 404, 409 or 500 changes nothing.              *)

\* middleware/security.js validatePostcode: the first four digits of a string
\* that holds at least four
validatePostcode_keepsShort(postcode) ==
    IF Falsy(postcode) THEN Null
    ELSE LET digits  == removeNonDigits(postcode)
             cleaned == IF Len(digits) > 4 THEN SubSeq(digits, 1, 4) ELSE digits
         IN  IF Len(cleaned) >= 2 THEN cleaned ELSE Null

validatePostcode(postcode) ==
    IF Falsy(postcode) THEN Null
    ELSE LET digits  == removeNonDigits(postcode)
             cleaned == IF Len(digits) > 4 THEN SubSeq(digits, 1, 4) ELSE digits
         IN  IF Len(cleaned) = 4 THEN cleaned ELSE Null

refreshCache == load' = [load EXCEPT ![AdminLoader] = [NoLoad EXCEPT !.pc = "loading"]]

\* PUT /warehouses/:id with a status
updateWarehouse(w, status) ==
    /\ load[AdminLoader].pc = "none"
    /\ w \in DOMAIN warehouses
    /\ status \in {"active", "inactive"}
    /\ warehouses' = [warehouses EXCEPT ![w].status = status]
    /\ refreshCache
    /\ UNCHANGED <<zones, inquiries, draftOrders, reqPc, payload, quiet, responses, threw,
                   pipe, envVars, cacheVars, pureVars, limitVars, zoneReq>>

\* POST /warehouses/:id/zones; insertId is the AUTO_INCREMENT of zones.id
addZone(w, postcode, prefix) ==
    LET validatedPostcode == validatePostcode(postcode)
        ids      == {zones[i].id : i \in 1..Len(zones)}
        insertId == IF ids = {} THEN 1 ELSE (CHOOSE m \in ids : \A k \in ids : k <= m) + 1
    IN  /\ load[AdminLoader].pc = "none"
        /\ validatedPostcode # Null
        /\ w \in DOMAIN warehouses
        /\ \A i \in 1..Len(zones) :
               ~(zones[i].warehouse_id = w /\ zones[i].postcode = validatedPostcode)
        /\ zones' = Append(zones, [id |-> insertId, warehouse_id |-> w,
                                   postcode |-> validatedPostcode,
                                   prefix |-> IF prefix THEN 1 ELSE 0])
        /\ refreshCache
        /\ UNCHANGED <<warehouses, inquiries, draftOrders, reqPc, payload, quiet, responses,
                       threw, pipe, envVars, cacheVars, pureVars, limitVars, zoneReq>>

\* DELETE /warehouses/:id/zones/:zoneId
deleteZone(w, zoneId) ==
    LET Kept(z) == z.id # zoneId
    IN  /\ load[AdminLoader].pc = "none"
        /\ \E i \in 1..Len(zones) : zones[i].id = zoneId /\ zones[i].warehouse_id = w
        /\ zones' = SelectSeq(zones, Kept)
        /\ refreshCache
        /\ UNCHANGED <<warehouses, inquiries, draftOrders, reqPc, payload, quiet, responses,
                       threw, pipe, envVars, cacheVars, pureVars, limitVars, zoneReq>>

-----------------------------------------------------------------------------
(* SpecCache: the zone cache under rate requests without customer details, *)
(* one administrative change, zone loads that succeed or fail in any way,  *)
(* and a clock that passes a moment, exactly the TTL, or more than the     *)
(* TTL.  The lead pipelines of the unmatched requests read and write       *)
(* neither the cache nor the zone tables and are left queued.              *)

CacheBodies ==
    { EmptyBody,
      Body(PCBad, Null, Null),
      Body(PC3005, Null, Null),
      Body(PC9000, Null, Null) }

InitCache == SysInit /\ PureIdle

NextCache ==
    \/ StartupLoad
    \/ \E r \in ReqIds : Arrive(r, CacheBodies, {FALSE})
    \/ \E r \in ReqIds : LookupTimeout(r)
    \/ \E l \in Loaders : LoadDone(l, AnyLoad)
    \/ updateWarehouse(1, "inactive")
    \/ updateWarehouse(3, "active")
    \/ addZone(1, <<"9", "0", "0", "0", "1">>, FALSE)
    \/ deleteZone(1, 2)
    \/ Tick({1000, CACHE_TTL, CACHE_TTL + 1})

SpecCache == InitCache /\ [][NextCache]_vars

-----------------------------------------------------------------------------
(* PUT /inquiries/:id/status: updateInquiryStatusRoute, its UPDATE applied *)

updateInquiryStatusRoute(inquiryId, status) ==
    /\ inquiryId \in 1..Len(inquiries)
    /\ status \in {"new", "reviewed", "closed"}
    /\ inquiries' = [inquiries EXCEPT ![inquiryId].status = status]
    /\ UNCHANGED <<warehouses, zones, draftOrders, envVars, cacheVars, reqVars, pureVars,
                   limitVars, zoneReq>>

-----------------------------------------------------------------------------
(* SpecDedup: the table already holds an inquiry of the first customer,    *)
(* with its draft order at the gateway;                                    *)
(* unmatched requests of that customer and of another run their pipelines  *)
(* while an administrator changes statuses and the dedup window passes      *)

SeedInquiry ==
    [id |-> 1, draft_order_id |-> 101, customer_name |-> Customer, email |-> Email1,
     phone |-> Null, address |-> Null, postcode |-> PC9001, product_details |-> Sofa,
     status |-> "new", created_at |-> 1]

DedupBodies ==
    { Body(PC9000, Email1, Address1),
      Body(PC9001, Email1, Null),
      Body(PC9000, Email2, Address2) }

InitDedup ==
    /\ now = 1
    /\ ticks = 0
    /\ warehouses = SeedWarehouses
    /\ zones = SeedZones
    /\ inquiries = <<SeedInquiry>>
    /\ draftOrders = <<[id |-> SeedInquiry.draft_order_id, email |-> SeedInquiry.email, by |-> 0]>>
    /\ zonesCache = NullCache
    /\ cacheTimestamp = 0
    /\ reqPc = [r \in ReqIds |-> "idle"]
    /\ payload = [r \in ReqIds |-> EmptyBody]
    /\ quiet = [r \in ReqIds |-> FALSE]
    /\ responses = [r \in ReqIds |-> <<>>]
    /\ threw = [r \in ReqIds |-> FALSE]
    /\ load = [l \in Loaders |-> NoLoad]
    /\ pipe = [r \in ReqIds |-> NoPipe]
    /\ rateLimitStore = NoRecord
    /\ limited = NotLimited
    /\ zoneReq = [a \in ZoneReqIds |-> NoZoneReq]
    /\ PureIdle

NextDedup ==
    \/ \E r \in ReqIds : Arrive(r, DedupBodies, {FALSE})
    \/ \E r \in ReqIds : LookupTimeout(r)
    \/ \E r \in ReqIds : LoadDone(r, CleanLoad)
    \/ \E r \in ReqIds : PipeStart(r)
    \/ \E r \in ReqIds : PipeFindDone(r, Refused)
    \/ \E r \in ReqIds : PipeUpdateDone(r, NoFault)
    \/ \E r \in ReqIds : PipeDraftDone(r, {"ok"})
    \/ \E r \in ReqIds : PipeInsertDone(r, NoFault)
    \/ \E i \in 1..2, status \in {"new", "reviewed", "closed"} :
           updateInquiryStatusRoute(i, status)
    \/ Tick({1000, DedupWindowMs - 1, DedupWindowMs})

SpecDedup == InitDedup /\ [][NextDedup]_vars

-----------------------------------------------------------------------------
(* SpecOverlap: loadZonesCache in two steps.  The SELECT of a load is      *)
(* answered by the store at one moment and its result is assigned at a     *)
(* later one (lines 22-36); loads run on separate pool connections, so the *)
(* results of two loads may come back in either order.  Every load here    *)
(* succeeds; the one admin request deactivates a warehouse.                *)

\* the store answers the SELECT of load l
LoadRead(l) ==
    /\ load[l].pc = "loading"
    /\ load' = [load EXCEPT ![l] = [pc |-> "read", ok |-> FALSE,
                                    rows |-> activeZones(zones, warehouses)]]
    /\ UNCHANGED <<reqPc, payload, quiet, responses, threw, pipe, envVars, storeVars,
                   cacheVars, pureVars, limitVars, zoneReq>>

\* the await of line 22 resumes: zonesCache = zones; cacheTimestamp = Date.now()
LoadInstall(l) ==
    /\ load[l].pc = "read"
    /\ zonesCache' = ArrayCache(load[l].rows)
    /\ cacheTimestamp' = now
    /\ load' = [load EXCEPT ![l] = [pc |-> "done", ok |-> TRUE]]
    /\ resumeLookup(l, zonesCache')
    /\ UNCHANGED <<payload, quiet, envVars, storeVars, pureVars, limitVars, zoneReq>>

NextOverlap ==
    \/ StartupLoad
    \/ \E r \in ReqIds : Arrive(r, CacheBodies, {FALSE})
    \/ \E r \in ReqIds : LookupTimeout(r)
    \/ \E l \in Loaders : LoadRead(l)
    \/ \E l \in Loaders : LoadInstall(l)
    \/ updateWarehouse(1, "inactive")
    \/ Tick({1000, CACHE_TTL + 1})

SpecOverlap == Init /\ [][NextOverlap]_vars

-----------------------------------------------------------------------------
(* POST /warehouses/:id/zones, await by await                              *)

\* lines 252-275: the synchronous checks of the body
addZoneStart(a, warehouseId, postcode, prefix) ==
    LET validatedPostcode == validatePostcode(postcode)
    IN  /\ zoneReq[a].pc = "idle"
        /\ a > 1 => zoneReq[a - 1].pc # "idle"
        /\ zoneReq' = [zoneReq EXCEPT ![a] =
              IF Falsy(postcode) \/ validatedPostcode = Null
              THEN [NoZoneReq EXCEPT !.pc = "done", !.status = 400, !.raw = postcode]
              ELSE [NoZoneReq EXCEPT !.pc = "selecting", !.warehouseId = warehouseId,
                                     !.postcode = validatedPostcode, !.raw = postcode,
                                     !.prefix = IF prefix THEN 1 ELSE 0]]
        /\ UNCHANGED <<sysVars, pureVars, limitVars>>

\* lines 278-292: the store answers the SELECT on warehouses and the SELECT
\* of the rows that have this warehouse and postcode
addZoneExisting(a) ==
    /\ zoneReq[a].pc = "selecting"
    /\ zoneReq' = [zoneReq EXCEPT ![a] =
          IF zoneReq[a].warehouseId \notin DOMAIN warehouses
          THEN [@ EXCEPT !.pc = "done", !.status = 404]
          ELSE IF \E i \in 1..Len(zones) :
                     /\ zones[i].warehouse_id = zoneReq[a].warehouseId
                     /\ zones[i].postcode = zoneReq[a].postcode
               THEN [@ EXCEPT !.pc = "done", !.status = 409]
               ELSE [@ EXCEPT !.pc = "inserting"]]
    /\ UNCHANGED <<sysVars, pureVars, limitVars>>

\* lines 294-299: the INSERT is applied (and the row read back)
addZoneInsert(a) ==
    LET ids      == {zones[i].id : i \in 1..Len(zones)}
        insertId == IF ids = {} THEN 1 ELSE (CHOOSE m \in ids : \A k \in ids : k <= m) + 1
    IN  /\ zoneReq[a].pc = "inserting"
        /\ zones' = Append(zones, [id |-> insertId, warehouse_id |-> zoneReq[a].warehouseId,
                                   postcode |-> zoneReq[a].postcode,
                                   prefix |-> zoneReq[a].prefix])
        /\ zoneReq' = [zoneReq EXCEPT ![a].pc = "refreshing", ![a].insertId = insertId]
        /\ UNCHANGED <<warehouses, inquiries, draftOrders, envVars, cacheVars, reqVars,
                       pureVars, limitVars>>

\* lines 302-304: refreshCache() settles and the route answers 201
addZoneRefreshed(a, loads) ==
    /\ zoneReq[a].pc = "refreshing"
    /\ \E res \in loads :
         /\ zonesCache' = IF res.ok THEN ArrayCache(activeZones(zones, warehouses))
                          ELSE cacheAfterFailure(zonesCache)
         /\ cacheTimestamp' = IF res.ok \/ CacheEmpty(zonesCache) THEN now ELSE cacheTimestamp
    /\ zoneReq' = [zoneReq EXCEPT ![a].pc = "done", ![a].status = 201]
    /\ UNCHANGED <<envVars, storeVars, reqVars, pureVars, limitVars>>

-----------------------------------------------------------------------------
(* SpecZones: two administrators add zones at the same time                *)

ZonePatterns ==
    { <<"3","0">>, <<"3","0","*">>, <<"3","0","0","5">>, <<"3","0","5","0">>,
      <<"3","0","5","0","1">>, <<"3","0","-","5","0">> }

NextZones ==
    \/ \E a \in ZoneReqIds, w \in {1, 4}, postcode \in ZonePatterns, prefix \in BOOLEAN :
           addZoneStart(a, w, postcode, prefix)
    \/ \E a \in ZoneReqIds : addZoneExisting(a)
    \/ \E a \in ZoneReqIds : addZoneInsert(a)
    \/ \E a \in ZoneReqIds : addZoneRefreshed(a, AnyLoad)

SpecZones == Init /\ [][NextZones]_vars

-----------------------------------------------------------------------------
(* SpecDown: one rate request for a postcode of the seeded zones, served   *)
(* by either copy of the handler, while the store has been unreachable     *)
(* since the process started: every statement ends with ECONNREFUSED or    *)
(* ETIMEDOUT.  Fairness: the timer of findMatchingZone's race fires        *)
(* (setTimeout, zoneService.js lines 120-123); a store statement ends,     *)
(* the pool giving up after connectTimeout (db/config.js lines 19-21) and  *)
(* query() after its retries; and the gateway answers or fails.  No        *)
(* fairness is put on the zone loads.                                      *)

CoveredBodies ==
    { Body(PC3005, Email1, Address1),
      Body(PC3011, Null, Null),
      [Body(PC3005, Email2, Address2) EXCEPT !.nameKind = "number"],
      [Body(PC3011, Email2, Address2) EXCEPT !.items = <<NullItem>>] }

NextDown ==
    \/ StartupLoad
    \/ Arrive(1, CoveredBodies, BOOLEAN)
    \/ LookupTimeout(1)
    \/ \E l \in {0, 1} : LoadDone(l, FailedLoad)
    \/ PipeStart(1)
    \/ PipeFindDone(1, Unreachable)
    \/ PipeDraftDone(1, GatewayOutcomes)
    \/ PipeInsertDone(1, Unreachable)
    \/ Tick(TickSteps)

SpecDown ==
    /\ InitOne
    /\ [][NextDown]_vars
    /\ WF_vars(LookupTimeout(1))
    /\ WF_vars(PipeDraftDone(1, GatewayOutcomes))
    /\ WF_vars(PipeInsertDone(1, Unreachable))

-----------------------------------------------------------------------------
(* Properties of the zone cache                                            *)

\* C11: at every moment at most one loadZonesCache() call is in flight: a
\* request (or refreshCache) that sees a missing or stale snapshot while a
\* load runs starts no further load.
C11_SingleFlight ==
    Cardinality({l \in Loaders : load[l].pc = "loading"}) <= 1

\* C12: a request that reaches findMatchingZone with a valid postcode starts a
\* zone load exactly when there is no snapshot or the snapshot is older than
\* CACHE_TTL; with a snapshot of age up to CACHE_TTL, empty or not, it starts
\* none.
C12_ReloadIffMissingOrExpired ==
    [][\A r \in ReqIds :
          LET postcode == extractPostcodeFromPayload(payload'[r])
              looksUp  == /\ reqPc[r] = "idle"
                          /\ reqPc'[r] \notin {"idle", "rejected"}
                          /\ ~Falsy(postcode)
                          /\ normalizePostcode(postcode) # Null
              starts   == load[r].pc = "none" /\ load'[r].pc = "loading"
          IN  /\ starts => looksUp
              /\ looksUp =>
                   (starts <=> (zonesCache.isNull \/ now - cacheTimestamp > CACHE_TTL))]_vars

\* the first request was answered with a zone at once, from a fresh snapshot;
\* the second came when the snapshot had expired and waits for its own load
C12_Witness ==
    /\ reqPc[1] = "done"
    /\ load[1].pc = "none"
    /\ responses[1][1].rates[1].service_code # INQUIRY
    /\ reqPc[2] = "lookup"
    /\ load[2].pc = "loading"
    /\ now - cacheTimestamp > CACHE_TTL

C14_NoLoadNoMatch ==
    (\A l \in Loaders : ~load[l].ok) =>
        /\ zonesCache = IF \E l \in Loaders : load[l].pc = "done"
                        THEN ArrayCache(<<>>) ELSE NullCache
        /\ \A r \in ReqIds :
              reqPc[r] = "done" =>
                  /\ Len(responses[r]) = 1
                  /\ responses[r][1].status = 200
                  /\ responses[r][1].rates[1].service_code = INQUIRY

\* the load of a request for 3005, a postcode of the seeded zones, gave up
\* with nothing loaded before, and the request was answered
C14_Witness ==
    /\ \A l \in Loaders : ~load[l].ok
    /\ load[1].pc = "done"
    /\ zonesCache = ArrayCache(<<>>)
    /\ payload[1].postal_code = PC3005
    /\ reqPc[1] = "done"

\* C15: a request that arrives while a non-empty snapshot is installed is
\* answered from that snapshot in the same step: it never waits for a zone load
\* or for a timer.
C15_LookupNeverWaits ==
    [][\A r \in ReqIds :
          (reqPc[r] = "idle" /\ ~CacheEmpty(zonesCache)) => reqPc'[r] # "lookup"]_vars

\* C16: once an administrative route has changed the zone tables and
\* responded, a request answered on arrival is answered as the tables now
\* say: with the zone the active zones of the store give for its postcode, or
\* with the INQUIRY rate when they give none.
C16_LookupReflectsMutation ==
    [][\A r \in ReqIds :
          LET body       == payload'[r]
              postcode   == extractPostcodeFromPayload(body)
              normalized == normalizePostcode(postcode)
              match      == scanZones(activeZones(zones, warehouses), normalized)
          IN  (/\ load[AdminLoader].pc = "done"
               /\ reqPc[r] = "idle"
               /\ reqPc'[r] = "done"
               /\ ~Falsy(postcode)
               /\ normalized # Null)
              => responses'[r] = << IF match.matchType # "none"
                                    THEN zoneResponse(body, match)
                                    ELSE inquiryResponse(body) >>]_vars

-----------------------------------------------------------------------------
(* Properties of the rate handler's early exits                            *)

\* C17: a request that passes validateInput and whose postcode is absent or
\* does not normalize starts no zone load and leaves the cache as it is, is
\* never suspended in the zone lookup, and is answered 200 with the INQUIRY
\* rate by a response that is a function of its body alone; for the absent
\* postcode the description says that the postcode information is missing.
C17_BadPostcodeSkipsCache ==
    [][\A r \in ReqIds :
          LET body     == payload'[r]
              postcode == extractPostcodeFromPayload(body)
              absent   == Falsy(postcode)
              invalid  == ~absent /\ normalizePostcode(postcode) = Null
          IN  (reqPc'[r] \notin {"idle", "rejected"} /\ (absent \/ invalid)) =>
                  /\ load'[r] = NoLoad
                  /\ reqPc'[r] # "lookup"
                  /\ reqPc[r] = "idle" => cacheVars' = cacheVars /\ load' = load
                  /\ (reqPc[r] = "idle" /\ absent) => reqPc'[r] = "done"
                  /\ reqPc'[r] = "done" =>
                        /\ Len(responses'[r]) = 1
                        /\ responses'[r][1].status = 200
                        /\ responses'[r][1].rates[1].service_code = INQUIRY
                        /\ absent => responses'[r][1].rates[1].description =
                                         "Postcode information is missing"
                        /\ responses'[r][1] \in
                              {missingPostcodeResponse(body), inquiryResponse(body),
                               errorFallbackResponse(body)}]_vars

\* a request without a destination was answered while nothing was cached
\* and no load was running
C17_Witness ==
    /\ payload[1] = EmptyBody
    /\ reqPc[1] = "done"
    /\ zonesCache.isNull
    /\ \A l \in Loaders : load[l] = NoLoad

-----------------------------------------------------------------------------
(* Properties of the lead pipeline                                         *)

\* C19: a pipeline run whose dedup lookup found a pending inquiry goes from
\* the lookup to the UPDATE and ends: it makes no gateway call and issues no
\* INSERT, no draft order is its own, and the step in which its UPDATE settles
\* leaves the draft orders, the number of inquiry rows and every row but the
\* found one as they were.
C19_DedupOnlyUpdates ==
    [][\A r \in ReqIds :
          pipe'[r].existingId # 0 =>
              /\ pipe'[r].pc \in {"update", "finished"}
              /\ pipe'[r].gateway = "none"
              /\ pipe'[r].draftOrderId = 0
              /\ pipe'[r].insertId = 0
              /\ \A k \in 1..Len(draftOrders') : draftOrders'[k].by # r
              /\ (pipe[r].pc = "update" /\ pipe'[r].pc = "finished") =>
                    /\ draftOrders' = draftOrders
                    /\ Len(inquiries') = Len(inquiries)
                    /\ \A i \in 1..Len(inquiries) :
                          i # pipe[r].existingId => inquiries'[i] = inquiries[i]]_vars

\* the second request's pipeline found the inquiry of the first and updated it
C19_Witness ==
    /\ pipe[1].insertId # 0
    /\ pipe[2].pc = "finished"
    /\ pipe[2].existingId = pipe[1].insertId
    /\ pipe[2].updated

\* C20: one execution of the background pipeline makes at most one
\* createDraftOrder call and leaves at most one inquiry row, however the
\* store statements fail.
C20_NoAutomaticRetry ==
    ~pipe[1].inline =>
        /\ Len(draftOrders) <= 1
        /\ Len(inquiries) <= 1

\* C21: the pipeline of a request without an email issues no dedup lookup and
\* no UPDATE; it calls the gateway and issues the INSERT, and the rows of two
\* such requests whose INSERTs succeeded are two different rows, neither
\* carrying an email.
C21_NoEmailNoDedup ==
    \A r \in ReqIds :
        (pipe[r].pc # "none" /\ Falsy(pipeCustomer(r).email)) =>
            /\ pipe[r].pc \in {"queued", "draft", "insert", "finished"}
            /\ pipe[r].existingId = 0
            /\ ~pipe[r].updated
            /\ pipe[r].pc \in {"insert", "finished"} => pipe[r].gateway # "none"
            /\ pipe[r].insertId # 0 =>
                  /\ pipe[r].insertId \in 1..Len(inquiries)
                  /\ inquiries[pipe[r].insertId].email = Null
                  /\ \A q \in ReqIds \ {r} : pipe[q].insertId # pipe[r].insertId

\* two requests without an email, each with its own draft order and its own row
C21_Witness ==
    /\ \A r \in {1, 2} :
          /\ Falsy(pipeCustomer(r).email)
          /\ pipe[r].pc = "finished"
          /\ pipe[r].gateway = "ok"
          /\ pipe[r].insertId # 0
    /\ Len(inquiries) = 2
    /\ Len(draftOrders) = 2

-----------------------------------------------------------------------------
(* Properties of the store access                                          *)

\* C22: query() executes the statement again after a timeout, a refused
\* connection or a lost connection, makes a bounded number of attempts and
\* throws the last error; and the delays between the successive executions of
\* a statement grow: no delay is shorter than the one before it.
C22_RetryWithBackoff ==
    called =>
        IF callCache = <<"query">>
        THEN /\ callArg[1][1].code \in QueryRetryCodes => callRet.executions = 2
             /\ callRet.executions <= QUERY_RETRIES
             /\ callRet.result = callArg[1][callRet.executions].code
        ELSE /\ callRet.executions <= LOAD_RETRIES * QUERY_RETRIES
             /\ \A k \in 1..(Len(callRet.delays) - 1) :
                   callRet.delays[k + 1] >= callRet.delays[k]

\* C23: when the first execution of a statement fails with an error that is
\* not of the retried classes (a malformed statement), the statement is
\* executed exactly once: query() throws that error with no delay, and
\* loadZonesCache fails after its first load attempt.
C23_NonTransientOnce ==
    (called /\ callArg[1][1].code \notin QueryRetryCodes \cup {"ok"}) =>
        IF callCache = <<"query">>
        THEN /\ callRet.result = callArg[1][1].code
             /\ callRet.executions = 1
        ELSE /\ ~callRet.ok
             /\ callRet.queries = 1
             /\ callRet.executions = 1
             /\ callRet.delays = <<>>

C23_Witness ==
    /\ called
    /\ callCache = <<"load">>
    /\ callArg[1][1].code = "ER_PARSE_ERROR"
    /\ callArg[1][2].code = "ok"
    /\ ~callRet.ok

-----------------------------------------------------------------------------
(* Properties of the rate limiters                                         *)

\* C24: one client is rejected with 429 on POST /carrier/rates only after 200
\* of its requests to that path were admitted in the window, and on another
\* path only after 100 of its requests to other paths were admitted; neither
\* count is affected by requests to the other kind of path.
C24_IndependentRateLimits ==
    /\ limited.carrier <= CarrierRateLimit
    /\ limited.other <= DefaultRateLimit
    /\ (limited.path = "carrier" /\ limited.status = 429)
           => limited.carrier = CarrierRateLimit
    /\ (limited.path = "other" /\ limited.status = 429)
           => limited.other = DefaultRateLimit

-----------------------------------------------------------------------------
(* Properties of the snapshot                                              *)

\* C25: whenever the snapshot is replaced, the new one is empty or holds
\* every zone the store has for its active warehouses as one load read them,
\* and a lookup that answers takes both of its passes over one snapshot: the
\* answer is the exact match of the installed snapshot or, when it has none,
\* its prefix match.
C25_SnapshotIsWhole ==
    [][/\ zonesCache' # zonesCache =>
            /\ ~zonesCache'.isNull
            /\ \/ zonesCache'.rows = <<>>
               \/ /\ \A i \in 1..Len(zones) :
                         warehouses[zones[i].warehouse_id].status = "active" =>
                             \E k \in 1..Len(zonesCache'.rows) :
                                 /\ zonesCache'.rows[k].id = zones[i].id
                                 /\ zonesCache'.rows[k].postcode = zones[i].postcode
                                 /\ zonesCache'.rows[k].prefix = zones[i].prefix
                  /\ \A k \in 1..Len(zonesCache'.rows) :
                         \E i \in 1..Len(zones) : zonesCache'.rows[k].id = zones[i].id
       /\ \A r \in ReqIds :
            LET normalized == normalizePostcode(extractPostcodeFromPayload(payload'[r]))
                rows       == zonesCache'.rows
                e          == exactScan(rows, 1, normalized)
                p          == prefixScan(rows, 1, normalized)
            IN  (/\ Len(responses'[r]) > Len(responses[r])
                 /\ normalized # Null
                 /\ ~CacheEmpty(zonesCache'))
                    => responses'[r][Len(responses'[r])] =
                           IF e # 0 THEN zoneResponse(payload'[r], MatchOf(rows[e], "exact"))
                           ELSE IF p # 0 THEN zoneResponse(payload'[r], MatchOf(rows[p], "prefix"))
                           ELSE inquiryResponse(payload'[r])
      ]_vars

\* a request waited for its own load while the startup load was also running;
\* both loads installed a snapshot and the request was answered from it
C25_Witness ==
    \E r \in ReqIds :
        /\ load[0] = [pc |-> "done", ok |-> TRUE]
        /\ load[r] = [pc |-> "done", ok |-> TRUE]
        /\ Len(zonesCache.rows) >= 2
        /\ responses[r] # <<>>
        /\ responses[r][1].rates[1].service_code[1] = "Z"

\* C26: every zone of a snapshot that is installed belongs to a warehouse
\* that is active in the store the load read, and once the admin request that
\* changed a warehouse has been answered, a rate request that arrives and is
\* answered with ZONE_<id> names a warehouse that is active in the store.
C26_OnlyActiveWarehouses ==
    [][/\ zonesCache' # zonesCache =>
            \A k \in 1..Len(zonesCache'.rows) :
                warehouses[zonesCache'.rows[k].warehouse_id].status = "active"
       /\ \A r \in ReqIds : \A w \in DOMAIN warehouses :
            (/\ load[AdminLoader].pc = "done"
             /\ reqPc[r] = "idle"
             /\ Len(responses'[r]) = 1
             /\ responses'[r][1] =
                    zoneResponse(payload'[r], [NoMatch EXCEPT !.warehouseId = w]))
                => warehouses[w].status = "active"
      ]_vars

-----------------------------------------------------------------------------
(* Properties of the stored inquiries                                      *)

\* C27: the postcode of every row of the inquiries table that the background
\* pipeline wrote is a normalized postcode: exactly four characters, each a
\* digit.
C27_StoredPostcodeNormalized ==
    (\A r \in ReqIds : ~pipe[r].inline) =>
        \A i \in 1..Len(inquiries) :
            /\ Len(inquiries[i].postcode) = 4
            /\ \A k \in 1..4 : IsDigit(inquiries[i].postcode[k])

\* C28: a request that is answered with a zone rate, or whose postcode is
\* absent or does not normalize, never has the background pipeline queued
\* for it: no dedup lookup, no gateway call and no insert or update is made
\* on its behalf.
C28_PipelineOnlyForValidUnmatched ==
    \A r \in ReqIds :
        LET postcode == extractPostcodeFromPayload(payload[r])
        IN  (/\ reqPc[r] = "done"
             /\ ~pipe[r].inline
             /\ \/ Falsy(postcode)
                \/ normalizePostcode(postcode) = Null
                \/ responses[r][1].rates[1].service_code[1] = "Z")
                => /\ pipe[r].pc = "none"
                   /\ \A i \in 1..Len(draftOrders) : draftOrders[i].by # r

-----------------------------------------------------------------------------
(* Properties of the dedup lookup                                          *)

-----------------------------------------------------------------------------
(* Properties of the pipeline's writes to the inquiries table              *)

-----------------------------------------------------------------------------
(* Properties of the cache after failed loads                              *)

\* C31: a rate request with a valid postcode that arrives while the cache
\* holds no zone (no load has succeeded yet) starts a load of the zones: it
\* is not answered from the empty cache without the store being asked again.
C31_EmptyCacheReloadsOnNextRequest ==
    [][\A r \in ReqIds :
          (/\ reqPc[r] = "idle"
           /\ reqPc'[r] # "idle"
           /\ checkValue(payload'[r])
           /\ normalizePostcode(extractPostcodeFromPayload(payload'[r])) # Null
           /\ CacheEmpty(zonesCache))
              => load'[r].pc = "loading"
      ]_vars

-----------------------------------------------------------------------------
(* Properties of the inquiry status                                        *)

\* C32: the status of every inquiry is new, reviewed or closed, and no step
\* moves the status of a stored inquiry backward along new, reviewed, closed.
C32_StatusNeverMovesBackward ==
    [][\A i \in 1..Len(inquiries) :
          LET rank(s) == CASE s = "new" -> 1 [] s = "reviewed" -> 2
                           [] s = "closed" -> 3 [] OTHER -> 0
          IN  /\ rank(inquiries'[i].status) # 0
              /\ rank(inquiries'[i].status) >= rank(inquiries[i].status)
      ]_vars

-----------------------------------------------------------------------------
(* Properties of overlapping loads                                         *)

\* C33: once the admin request that changed the store has been answered and
\* no load is running, the installed snapshot is the one the latest store
\* read produced: it holds the zones of the warehouses that are active in the
\* store now.
C33_LaterReadWins ==
    (/\ load[AdminLoader].pc = "done"
     /\ \A l \in Loaders : load[l].pc \in {"none", "done"})
        => zonesCache.rows = activeZones(zones, warehouses)

-----------------------------------------------------------------------------
(* Properties of the pipeline against administrative status updates        *)

C35_NoDraftAfterFailedLookup ==
    [][\A r \in ReqIds :
          (/\ pipe[r].pc = "draft"
           /\ pipe[r].lookup = "failed"
           /\ recentInquiries(inquiries, pipeCustomer(r).email, now) # {})
              => draftOrders' = draftOrders
      ]_vars

-----------------------------------------------------------------------------
(* Properties of the cache status                                          *)

\* C36: getCacheStatus reports the cache as loaded only when some load of
\* the zones has succeeded.
C36_LoadedOnlyAfterSuccessfulLoad ==
    getCacheStatus.loaded => \E l \in Loaders : load[l].pc = "done" /\ load[l].ok

-----------------------------------------------------------------------------
(* Properties of the load's outcome                                        *)

-----------------------------------------------------------------------------
(* Properties of addZone                                                   *)

\* C38: the zones table never holds two rows with the same warehouse and
\* postcode.
C38_NoDuplicateZone ==
    \A i, j \in 1..Len(zones) :
        (zones[i].warehouse_id = zones[j].warehouse_id /\ zones[i].postcode = zones[j].postcode)
            => i = j

====
